---- MODULE Spec2Model ----
(***************************************************************************)
(* State-machine model of garmin-run-tracker: the FIT import path          *)
(* (import_file -> import_fit_data) and the elevation enrichment path      *)
(* (update_elevation_data and its two helpers), over a SQLite database     *)
(* modelled as three tables of rows in rowid order.                        *)
(***************************************************************************)
EXTENDS Integers, Sequences, FiniteSets, TLC

(***************************************************************************)
(* Bounds of the model                                                     *)
(***************************************************************************)
\* longest decoded message stream of an imported file
MaxMesgs == 3
\* imports are started only while the database holds fewer rows than this
MaxRows == 2

(***************************************************************************)
(* SQL values: a nullable column holds <<>> (NULL) or <<v>>                *)
(***************************************************************************)
NULL == <<>>
Some(v) == <<v>>
IsNull(o) == o = <<>>

(***************************************************************************)
(* Decoded FIT messages (fitparser::FitDataRecord), reduced to the fields  *)
(* that the insert statements bind to a NOT NULL column or that the        *)
(* enrichment queries read.  The other columns (speed, distance, heart     *)
(* rate, calories, device names) are nullable payload and are left out.    *)
(***************************************************************************)
FileIdMesg == [kind |-> "file_id", serial_number |-> Some(1), time_created |-> Some(1)]
OtherMesg == [kind |-> "other"]
RecordMesg(lat, long, ts) ==
  [kind |-> "record", position_lat |-> lat, position_long |-> long, timestamp |-> ts]
LapMesg(slat, slong, elat, elong, ts) ==
  [kind |-> "lap", start_position_lat |-> slat, start_position_long |-> slong,
   end_position_lat |-> elat, end_position_long |-> elong,
   start_time |-> ts, timestamp |-> ts]

\* the messages the decoder yields in the import specification: a file_id
\* message, a message of a kind the loop skips, a record with a position, a
\* record without a timestamp field (its insert violates NOT NULL), and a lap
Mesgs ==
  { FileIdMesg, OtherMesg,
    RecordMesg(Some(1), Some(1), Some(1)),
    RecordMesg(Some(1), Some(1), NULL),
    LapMesg(Some(1), Some(1), Some(1), Some(1), Some(1)) }

Streams == UNION { [1..n -> Mesgs] : n \in 0..MaxMesgs }

\* the content of a file: either bytes that decode to a message stream, or
\* bytes that fitparser rejects
FitFiles ==
  { [valid |-> TRUE, mesgs |-> s] : s \in Streams } \cup { [valid |-> FALSE, mesgs |-> <<>>] }

MesgCode(m) ==
  CASE m.kind = "file_id" -> 1
    [] m.kind = "other" -> 2
    [] m.kind = "record" -> IF IsNull(m.timestamp) THEN 4 ELSE 3
    [] m.kind = "lap" -> 5

RECURSIVE StreamCode(_)
StreamCode(s) ==
  IF s = <<>> THEN 0 ELSE MesgCode(s[Len(s)]) + 6 * StreamCode(SubSeq(s, 1, Len(s) - 1))

\* the fingerprint of a file's bytes: the SHA-256 based UUID is modelled as a
\* collision-free numbering of the bounded set of file contents
Fingerprint(data) == IF data.valid THEN 1 + StreamCode(data.mesgs) ELSE 0

\* fitparser::from_bytes
from_bytes(data) == IF data.valid THEN [ok |-> TRUE, mesgs |-> data.mesgs] ELSE [ok |-> FALSE]

(***************************************************************************)
(* The database                                                            *)
(***************************************************************************)
EmptyDb == [files |-> <<>>, records |-> <<>>, laps |-> <<>>]
NoTx == [open |-> FALSE]
OpenTx(d) == [open |-> TRUE, files |-> d.files, records |-> d.records, laps |-> d.laps]
TxDb(t) == [files |-> t.files, records |-> t.records, laps |-> t.laps]

RowCounts(d) == <<Len(d.files), Len(d.records), Len(d.laps)>>
TotalRows(d) == Len(d.files) + Len(d.records) + Len(d.laps)

\* integer primary key: a new row gets the largest rowid of the table plus one
\* (rows are never deleted, so the table is a sequence in rowid order)
last_insert_rowid(rows) == Len(rows) + 1

\* "select id from files where uuid = ?" finds a row
file_exists(d, uuid) == \E k \in 1..Len(d.files) : d.files[k].uuid = uuid

\* a drop that commits what the transaction staged
DropTransactionCommits(d, t) == t

\* what is left of a transaction that is dropped without commit: rusqlite
\* rolls it back, so the database is the committed one
DropTransaction(d, t) == d

(***************************************************************************)
(* State                                                                   *)
(***************************************************************************)
VARIABLES
  db,         \* the committed content of the database file
  tx,         \* the transaction import_fit_data opens on its own connection
  caller_tx,  \* TRUE while the transaction opened by import_file is open
  pc,         \* position of the import command
  imp,        \* the running (or last) import_file call
  result,     \* what import_fit_data returned to import_file
  ret,        \* what import_file returned
  enr,        \* the running (or last) update_elevation_data call
  cmd,        \* the running command's loop over its paths or files
  gen,        \* the calls of generate_uuid
  gps,        \* the last call of a function of the gps module
  query       \* a QueryStringBuilder and what it was last rendered to

vars == <<db, tx, caller_tx, pc, imp, result, ret, enr, cmd, gen, gps, query>>
impvars == <<caller_tx, imp, result, ret>>

Ok(v) == [ok |-> TRUE, error |-> "none", value |-> v]
Err(e, v) == [ok |-> FALSE, error |-> e, value |-> v]
NoResult == [ok |-> FALSE, error |-> "none", value |-> 0]
\* the result of import_file, with whether the call copied the file
Returned(r, copied) == [ok |-> r.ok, error |-> r.error, value |-> r.value, copied |-> copied]
\* no call is running; prev is the uuid the last import_fit_data call returned
\* when it succeeded
NoImport ==
  [data |-> [valid |-> FALSE, mesgs |-> <<>>], prev |-> NULL,
   again |-> FALSE, uuid |-> 0, messages |-> <<>>, i |-> 0, file_rec_id |-> NULL,
   before |-> EmptyDb]

(***************************************************************************)
(* The three insert statements of import_fit_data.  Each returns whether   *)
(* the statement succeeded and the transaction's content afterwards; a     *)
(* NULL bound to a NOT NULL column fails the statement.                    *)
(***************************************************************************)
insert_file(t, m, uuid) ==
  IF IsNull(m.serial_number) \/ IsNull(m.time_created)
  THEN [ok |-> FALSE, tx |-> t]
  ELSE [ok |-> TRUE,
        tx |-> [t EXCEPT !.files = Append(@,
                  [id |-> last_insert_rowid(t.files), uuid |-> uuid,
                   device_serial_number |-> m.serial_number,
                   time_created |-> m.time_created])]]

\* the insert with a nullable file_id column
insert_record_nullable(t, m, file_rec_id, k) ==
  IF IsNull(m.timestamp)
  THEN [ok |-> FALSE, tx |-> t]
  ELSE [ok |-> TRUE,
        tx |-> [t EXCEPT !.records = Append(@,
                  [id |-> last_insert_rowid(t.records), file_id |-> file_rec_id,
                   position_lat |-> m.position_lat, position_long |-> m.position_long,
                   elevation |-> NULL, timestamp |-> m.timestamp,
                   mesg |-> k])]]

insert_record(t, m, file_rec_id, k) ==
  IF IsNull(m.timestamp) \/ IsNull(file_rec_id)
  THEN [ok |-> FALSE, tx |-> t]
  ELSE [ok |-> TRUE,
        tx |-> [t EXCEPT !.records = Append(@,
                  [id |-> last_insert_rowid(t.records), file_id |-> file_rec_id,
                   position_lat |-> m.position_lat, position_long |-> m.position_long,
                   elevation |-> NULL, timestamp |-> m.timestamp,
                   mesg |-> k])]]

insert_lap(t, m, file_rec_id, k) ==
  IF IsNull(m.start_time) \/ IsNull(m.timestamp) \/ IsNull(file_rec_id)
  THEN [ok |-> FALSE, tx |-> t]
  ELSE [ok |-> TRUE,
        tx |-> [t EXCEPT !.laps = Append(@,
                  [id |-> last_insert_rowid(t.laps), file_id |-> file_rec_id,
                   start_position_lat |-> m.start_position_lat,
                   start_position_long |-> m.start_position_long,
                   end_position_lat |-> m.end_position_lat,
                   end_position_long |-> m.end_position_long,
                   start_elevation |-> NULL, end_elevation |-> NULL,
                   start_time |-> m.start_time, timestamp |-> m.timestamp,
                   mesg |-> k])]]

\* a loop that walks the messages from the last to the first
PositionReversed(n, k) == n - k + 1

\* `for mesg in messages`: the k-th iteration handles the k-th of n messages
Position(n, k) == k

\* a loop that keeps the id of the first files row it inserted
process_mesg_keeps_first_file(t, m, uuid, file_rec_id, k) ==
  CASE m.kind = "file_id" ->
         LET r == insert_file(t, m, uuid)
         IN  [ok |-> r.ok, tx |-> r.tx,
              file_rec_id |-> IF r.ok /\ IsNull(file_rec_id)
                              THEN Some(r.tx.files[Len(r.tx.files)].id)
                              ELSE file_rec_id]
    [] m.kind = "lap" ->
         LET r == insert_lap(t, m, file_rec_id, k)
         IN  [ok |-> r.ok, tx |-> r.tx, file_rec_id |-> file_rec_id]
    [] m.kind = "record" ->
         LET r == insert_record(t, m, file_rec_id, k)
         IN  [ok |-> r.ok, tx |-> r.tx, file_rec_id |-> file_rec_id]
    [] OTHER -> [ok |-> TRUE, tx |-> t, file_rec_id |-> file_rec_id]

\* one iteration of the message loop: the statement's outcome, the
\* transaction afterwards and the file row id the loop carries on
process_mesg(t, m, uuid, file_rec_id, k) ==
  CASE m.kind = "file_id" ->
         LET r == insert_file(t, m, uuid)
         IN  [ok |-> r.ok, tx |-> r.tx,
              file_rec_id |-> IF r.ok THEN Some(r.tx.files[Len(r.tx.files)].id)
                              ELSE file_rec_id]
    [] m.kind = "lap" ->
         LET r == insert_lap(t, m, file_rec_id, k)
         IN  [ok |-> r.ok, tx |-> r.tx, file_rec_id |-> file_rec_id]
    [] m.kind = "record" ->
         LET r == insert_record(t, m, file_rec_id, k)
         IN  [ok |-> r.ok, tx |-> r.tx, file_rec_id |-> file_rec_id]
    [] OTHER -> [ok |-> TRUE, tx |-> t, file_rec_id |-> file_rec_id]

\* no enrichment call is running; prev tells of the last call, when it ran
\* with overwrite = false and succeeded, its file identifier and whether the
\* service gave an elevation for every location it counted
NoEnrich == [prev |-> NULL]

\* no command loop is running
NoCmd == [name |-> "none"]

\* no generate_uuid call is running
NoGen == [called |-> FALSE]
NoGps == [called |-> FALSE]
NoQuery == [built |-> FALSE]

(***************************************************************************)
(* The import command                                                      *)
(***************************************************************************)
Init ==
  /\ db = EmptyDb
  /\ tx = NoTx
  /\ caller_tx = FALSE
  /\ pc = "idle"
  /\ imp = NoImport
  /\ result = NoResult
  /\ ret = Returned(NoResult, FALSE)
  /\ enr = NoEnrich
  /\ cmd = NoCmd
  /\ gen = NoGen
  /\ gps = NoGps
  /\ query = NoQuery

\* import_file up to the call of import_fit_data: open a transaction on the
\* caller's connection, open the file
ImportFileOn(files) ==
  /\ pc = "idle"
  /\ TotalRows(db) < MaxRows
  /\ \/ \E data \in files :
          /\ imp' = [NoImport EXCEPT !.data = data,
                                     !.again = (imp.prev = Some(Fingerprint(data))),
                                     !.before = db]
          /\ caller_tx' = TRUE
          /\ pc' = "import_fit_data"
          /\ ret' = Returned(NoResult, FALSE)
     \/ \* File::open fails and `?` drops the transaction
        /\ imp' = imp
        /\ caller_tx' = FALSE
        /\ pc' = "idle"
        /\ ret' = Returned(Err("Io", 0), FALSE)
  /\ result' = NoResult
  /\ UNCHANGED <<db, tx, enr, cmd, gen, gps, query>>

ImportFileBegin == ImportFileOn(FitFiles)

\* import_fit_data up to the message loop: fingerprint, duplicate query on a
\* connection of its own, decoding, start of its transaction
ImportFitDataStart ==
  /\ pc = "import_fit_data"
  /\ LET uuid == Fingerprint(imp.data)
         parsed == from_bytes(imp.data)
     IN  IF file_exists(db, uuid)
         THEN /\ result' = Err("DuplicateFileError", uuid)
              /\ pc' = "returned"
              /\ imp' = [imp EXCEPT !.uuid = uuid]
              /\ tx' = tx
         ELSE IF ~parsed.ok
         THEN /\ result' = Err("FitParser", 0)
              /\ pc' = "returned"
              /\ imp' = [imp EXCEPT !.uuid = uuid]
              /\ tx' = tx
         ELSE /\ tx' = OpenTx(db)
              /\ imp' = [imp EXCEPT !.uuid = uuid, !.messages = parsed.mesgs, !.i = 1,
                                    !.file_rec_id = NULL]
              /\ pc' = "loop"
              /\ result' = result
  /\ UNCHANGED <<db, caller_tx, ret, enr, cmd, gen, gps, query>>

\* one iteration of the message loop; a failed statement leaves the function
\* through `?`, which drops the transaction
ImportMesg ==
  /\ pc = "loop"
  /\ imp.i <= Len(imp.messages)
  /\ LET k == Position(Len(imp.messages), imp.i)
         r == process_mesg(tx, imp.messages[k], imp.uuid, imp.file_rec_id, k)
     IN  IF r.ok
         THEN /\ tx' = r.tx
              /\ imp' = [imp EXCEPT !.i = @ + 1, !.file_rec_id = r.file_rec_id]
              /\ UNCHANGED <<db, pc, result>>
         ELSE /\ db' = DropTransaction(db, TxDb(r.tx))
              /\ tx' = NoTx
              /\ result' = Err("Rusqlite", 0)
              /\ pc' = "returned"
              /\ imp' = imp
  /\ UNCHANGED <<caller_tx, ret, enr, cmd, gen, gps, query>>

\* the end of import_fit_data: it commits its transaction and returns the uuid
ImportFitDataCommit ==
  /\ pc = "loop"
  /\ imp.i > Len(imp.messages)
  /\ \E committed \in BOOLEAN :
       IF committed
       THEN /\ db' = TxDb(tx)
            /\ result' = Ok(imp.uuid)
       ELSE /\ db' = DropTransaction(db, TxDb(tx))
            /\ result' = Err("Rusqlite", 0)
  /\ tx' = NoTx
  /\ pc' = "returned"
  /\ UNCHANGED <<caller_tx, imp, ret, enr, cmd, gen, gps, query>>

\* a tail of import_file that copies the file before it commits
import_file_copy_first(r, persist_file, committed, copy_ok) ==
  IF ~persist_file THEN (IF committed THEN Returned(r, FALSE)
                                      ELSE Returned(Err("Rusqlite", 0), FALSE))
  ELSE IF ~copy_ok THEN Returned(Err("Io", 0), FALSE)
  ELSE IF committed THEN Returned(r, TRUE)
  ELSE Returned(Err("Rusqlite", 0), TRUE)

\* the tail of import_file after import_fit_data returned Ok(r): commit, then
\* copy the file when persist_file is set; either step can fail
import_file_tail(r, persist_file, committed, copy_ok) ==
  IF ~committed THEN Returned(Err("Rusqlite", 0), FALSE)
  ELSE IF ~persist_file THEN Returned(r, FALSE)
  ELSE IF copy_ok THEN Returned(r, TRUE)
  ELSE Returned(Err("Io", 0), FALSE)

\* import_file after import_fit_data returned: on an error the caller's
\* transaction is dropped; otherwise it is committed and the file is copied
\* into the devices directory when persist_file is set (the parameter is read
\* only here, so its value is drawn here)
ImportFileReturn ==
  /\ pc = "returned"
  /\ caller_tx' = FALSE
  /\ pc' = "idle"
  /\ IF ~result.ok
     THEN ret' = Returned(result, FALSE)
     ELSE \E persist_file \in BOOLEAN, committed \in BOOLEAN, copy_ok \in BOOLEAN :
            ret' = import_file_tail(result, persist_file, committed, copy_ok)
  /\ imp' = [NoImport EXCEPT !.prev = IF result.ok THEN Some(result.value) ELSE NULL]
  /\ result' = NoResult
  /\ UNCHANGED <<db, tx, enr, cmd, gen, gps, query>>

Next ==
  \/ ImportFileBegin
  \/ ImportFitDataStart
  \/ ImportMesg
  \/ ImportFitDataCommit
  \/ ImportFileReturn

Spec == Init /\ [][Next]_vars

(***************************************************************************)
(* Properties of the import                                                *)
(***************************************************************************)
Indexes(seq) == 1..Len(seq)
FileIdIndexes(s) == { k \in Indexes(s) : s[k].kind = "file_id" }
RowMesgIndexes(s) == { k \in Indexes(s) : s[k].kind \in {"record", "lap"} }
BeforeFirstFileId(s, k) == \A f \in FileIdIndexes(s) : k < f
\* the rows of a table that the running call added
NewRows(rows, old) == { rows[k] : k \in (Len(old) + 1)..Len(rows) }

\* the call got through the message loop and its own commit failed in storage
CommitFailed == pc = "returned" /\ ~result.ok /\ imp.i > Len(imp.messages)

\* C1: when import_fit_data is called again with the bytes that the previous
\* call imported and committed, it returns DuplicateFileError with the same
\* fingerprint and the row counts of the three tables are unchanged
C1_SecondImportIsDuplicate ==
  (pc = "returned" /\ imp.again /\ ~CommitFailed) =>
    /\ result = Err("DuplicateFileError", Fingerprint(imp.data))
    /\ RowCounts(db) = RowCounts(imp.before)

\* C2: no two rows of the files table carry the same uuid
C2_UniqueFingerprint ==
  \A i, j \in Indexes(db.files) : i # j => db.files[i].uuid # db.files[j].uuid

\* every record and lap row of d has a file_id that names a files row of d
RowsOwned(d) ==
  /\ \A k \in Indexes(d.records) :
       /\ ~IsNull(d.records[k].file_id)
       /\ \E f \in Indexes(d.files) : Some(d.files[f].id) = d.records[k].file_id
  /\ \A k \in Indexes(d.laps) :
       /\ ~IsNull(d.laps[k].file_id)
       /\ \E f \in Indexes(d.files) : Some(d.files[f].id) = d.laps[k].file_id

\* C3: every committed record and lap row has a non-null file_id naming an
\* existing files row, and at every point of an import transaction the rows
\* staged so far are owned by a files row that this transaction has already
\* inserted and whose id the loop holds
C3_RowsHaveOwningFile ==
  /\ RowsOwned(db)
  /\ tx.open =>
       /\ RowsOwned(TxDb(tx))
       /\ \A r \in NewRows(tx.records, imp.before.records) \cup NewRows(tx.laps, imp.before.laps) :
            /\ ~IsNull(imp.file_rec_id)
            /\ r.file_id[1] > Len(imp.before.files)
            /\ r.file_id[1] <= imp.file_rec_id[1]

C3_Witness ==
  /\ tx.open
  /\ NewRows(tx.records, imp.before.records) # {}
  /\ NewRows(tx.laps, imp.before.laps) # {}
  /\ db.files # <<>>

\* C4: when import_fit_data has failed, also after record rows were staged,
\* the database holds exactly the rows it held before the call
C4_FailedImportLeavesNoRows ==
  (pc = "returned" /\ ~result.ok) => (db = imp.before /\ ~tx.open)

C4_Witness ==
  /\ pc = "returned"
  /\ result = Err("Rusqlite", 0)
  /\ imp.i <= Len(imp.messages)
  /\ \E f \in FileIdIndexes(imp.messages), k \in Indexes(imp.messages) :
       f < k /\ k < imp.i /\ imp.messages[k].kind = "record"

\* C5: a decodable stream without a file_id message makes import_fit_data
\* fail with FileIdMessageNotFound and leaves no row behind
C5_MissingFileIdIsAnError ==
  (pc = "returned" /\ imp.data.valid /\ FileIdIndexes(imp.data.mesgs) = {} /\ ~CommitFailed) =>
    /\ ~result.ok
    /\ result.error = "FileIdMessageNotFound"
    /\ db = imp.before

\* C6: record and lap messages ahead of the first file_id message are
\* disregarded: the loop does not fail on them and stores no row for them
C6_EarlyMessagesDisregarded ==
  LET s == imp.data.mesgs
  IN  (/\ pc = "returned"
       /\ imp.data.valid
       /\ FileIdIndexes(s) # {}
       /\ ~file_exists(imp.before, Fingerprint(imp.data))
       /\ \A k \in Indexes(s) : s[k].kind = "record" => ~IsNull(s[k].timestamp)
       /\ \E k \in RowMesgIndexes(s) : BeforeFirstFileId(s, k)) =>
        /\ imp.i > Len(s)
        /\ \A r \in NewRows(db.records, imp.before.records) \cup NewRows(db.laps, imp.before.laps) :
             ~BeforeFirstFileId(s, r.mesg)

\* C7: import_fit_data never commits: the committed database changes only in
\* the step in which import_file commits its own transaction
C7_OnlyTheCallerCommits ==
  [][db' # db => (pc = "returned" /\ caller_tx /\ ~caller_tx')]_vars

\* the uuid of the file that owns a row
OwnerUuid(d, r) == d.files[r.file_id[1]].uuid
InStreamOrder(d, rows) ==
  \A i, j \in Indexes(rows) :
    (OwnerUuid(d, rows[i]) = OwnerUuid(d, rows[j]) /\ rows[i].mesg < rows[j].mesg)
      => rows[i].id < rows[j].id

\* C8: of two record rows (or two lap rows) of one file, the one whose source
\* message comes earlier in the stream has the smaller row id
C8_RowsInStreamOrder ==
  /\ InStreamOrder(db, db.records) /\ InStreamOrder(db, db.laps)
  /\ tx.open => (InStreamOrder(TxDb(tx), tx.records) /\ InStreamOrder(TxDb(tx), tx.laps))

C8_Witness ==
  \E i, j \in Indexes(db.records) :
    /\ i # j
    /\ OwnerUuid(db, db.records[i]) = OwnerUuid(db, db.records[j])
    /\ db.records[i].mesg < db.records[j].mesg

(***************************************************************************)
(* Elevation enrichment: update_elevation_data and its callers             *)
(***************************************************************************)
\* most rows (records plus laps) of a database the enrichment starts from
MaxElevRows == 3

\* f32: a sign, a significand of 24 bits and an exponent; the value is
\* (+/-) m * 2^exp, with 2^23 <= m < 2^24 unless it is zero
F32(neg, m, exp) == [neg |-> neg, m |-> m, exp |-> exp]

RECURSIVE BitLen(_)
BitLen(n) == IF n = 0 THEN 0 ELSE 1 + BitLen(n \div 2)

\* v * 2^exp with the significand shifted up to 24 bits
Normalized(neg, v, exp, shift) == F32(neg, v * 2 ^ shift, exp - shift)

\* the f32 that is exactly v * 2^exp, for v < 2^24
ExactF32(neg, v, exp) ==
  IF v = 0 THEN F32(FALSE, 0, 0) ELSE Normalized(neg, v, exp, 24 - BitLen(v))

\* a significand that the rounding carried to 2^24 is 2^23 one exponent up
Renormalized(neg, m, exp) ==
  IF m = 16777216 THEN F32(neg, 8388608, exp + 1) ELSE F32(neg, m, exp)

\* round to nearest: up when the dropped bits are more than half of the last
\* kept bit, and on a tie when the kept significand is odd
RoundTie(neg, kept, rem, half, exp) ==
  Renormalized(neg, IF rem > half \/ (rem = half /\ kept % 2 = 1) THEN kept + 1 ELSE kept,
               exp)

\* the 24 bits kept and the `drop` bits dropped of H * 2^12 + L
RoundDropping(neg, H, L, exp, drop) ==
  RoundTie(neg, H * 2 ^ (12 - drop) + (L \div 2 ^ drop), L % 2 ^ drop, 2 ^ (drop - 1),
           exp + drop)

\* the f32 nearest to (H * 2^12 + L) * 2^exp, a tie going to the even
\* significand (the rounding of every f32 operation); L < 2^12, H < 2^24
RoundToF32(neg, H, L, exp) ==
  IF BitLen(H) <= 12 THEN ExactF32(neg, H * 4096 + L, exp)
  ELSE RoundDropping(neg, H, L, exp, BitLen(H) - 12)

\* the magnitude y + 1 of a negative x (y = -(x + 1)), or y of another x, in
\* its parts above and below bit 12
AsF32Parts(neg, y, carry) ==
  RoundToF32(neg,
             (y \div 4096) + (IF carry THEN 1 ELSE 0),
             IF ~neg THEN y % 4096 ELSE IF carry THEN 0 ELSE (y % 4096) + 1,
             0)

AsF32Magnitude(neg, y) == AsF32Parts(neg, y, neg /\ y % 4096 = 4095)

\* `x as f32` for an i32 x
AsF32(x) == AsF32Magnitude(x < 0, IF x < 0 THEN -(x + 1) ELSE x)

\* c * (a * 2^12 + b) in parts above and below bit 12
MulParts(x, c, cexp, a, b) ==
  RoundToF32(x.neg, c * a + ((c * b) \div 4096), (c * b) % 4096, x.exp + cexp)

\* x * c for an f32 x and the f32 constant c * 2^cexp, c < 4096
MulF32(x, c, cexp) == MulParts(x, c, cexp, x.m \div 4096, x.m % 4096)

\* x / 2^k
DivPow2F32(x, k) == IF x.m = 0 THEN x ELSE [x EXCEPT !.exp = @ - k]

\* f32::round, halfway cases away from zero, and the cast `as i32`
RoundAsI32(x) ==
  LET mag == IF x.exp >= 0 THEN x.m * 2 ^ x.exp
             ELSE IF x.exp < -24 THEN 0
             ELSE LET d == 2 ^ (-x.exp)
                  IN  (x.m \div d) + (IF 2 * (x.m % d) >= d THEN 1 ELSE 0)
  IN  IF x.neg THEN -mag ELSE mag

\* a conversion that takes the values for 32-bit fractions of the half circle
degrees_by_two_pow_32(native) == DivPow2F32(MulF32(AsF32(native), 45, 2), 32)

\* (native as f32) * 180.0 / 2147483648.0
degrees(native) == DivPow2F32(MulF32(AsF32(native), 45, 2), 31)

MaxI32 == 2147483647
MinI32 == -2147483647 - 1

\* the semicircle values from_fit_coordinates is called with: zero, the
\* smallest ones, a quarter and a half circle, and one that no f32 holds
Semicircles == {0, 1, -1, 2, 16777217, 1073741824, MaxI32, MinI32}

\* the degrees of these values, computed once
SemicircleDegrees == [native \in Semicircles |-> degrees(native)]

\* Location::from_fit_coordinates: degrees = semicircles * 180 / 2^31 in f32;
\* a new Location has no elevation
from_fit_coordinates(latitude, longitude) ==
  [latitude |-> SemicircleDegrees[latitude], longitude |-> SemicircleDegrees[longitude],
   elevation |-> NULL]

\* the places the rows of the model lie at, and what the elevation service
\* answers for a place during one call: an elevation or none
Places ==
  { <<l.latitude, l.longitude>> : l \in {from_fit_coordinates(1, 1), from_fit_coordinates(2, 1)} }
Answers == [Places -> {NULL, Some(10)}]

\* the provider's batch_size (a configuration parameter)
BatchSizes == {1, 100}

\* where the service fails during a call: nowhere, or at the k-th request of
\* the records, the lap starts or the lap ends
NoFailure == [phase |-> "none", k |-> 0]
FailPoints ==
  {NoFailure} \cup [phase : {"records", "lap_start", "lap_end"}, k : {1, 2}]
FailAt(fail, phase) == IF fail.phase = phase THEN fail.k ELSE 0

\* ElevationDataSource::request_elevation_data: one request per chunk of
\* batch_size locations; a failed request ends the call with an error, a
\* successful one sets the elevation of every location of the chunk
request_elevation_data(locations, answers, batch_size, fail_k) ==
  LET n == Len(locations)
      chunks == (n + batch_size - 1) \div batch_size
  IN  IF fail_k \in 1..chunks
      THEN [ok |-> FALSE, requests |-> fail_k, locations |-> locations]
      ELSE [ok |-> TRUE, requests |-> chunks,
            locations |-> [k \in 1..n |->
               [locations[k] EXCEPT !.elevation =
                  answers[<<locations[k].latitude, locations[k].longitude>>]]]]

\* the where clauses update_elevation_data puts on its two queries
\* a selection that overwrites whenever overwrite is set
rec_selected_any_file(r, file_id, overwrite) ==
  /\ ~IsNull(r.position_lat)
  /\ ~IsNull(r.position_long)
  /\ (~overwrite) => IsNull(r.elevation)
  /\ (~IsNull(file_id)) => r.file_id = file_id

rec_selected(r, file_id, overwrite) ==
  /\ ~IsNull(r.position_lat)
  /\ ~IsNull(r.position_long)
  /\ (IsNull(file_id) \/ ~overwrite) => IsNull(r.elevation)
  /\ (~IsNull(file_id)) => r.file_id = file_id

\* a selection of laps that takes filled laps again
lap_selected_filled(r, file_id, overwrite) ==
  /\ ~IsNull(r.start_position_lat)
  /\ ~IsNull(r.start_position_long)
  /\ (~IsNull(file_id)) => r.file_id = file_id

lap_selected(r, file_id, overwrite) ==
  /\ ~IsNull(r.start_position_lat)
  /\ ~IsNull(r.start_position_long)
  /\ (IsNull(file_id) \/ ~overwrite) => IsNull(r.start_elevation)
  /\ (~IsNull(file_id)) => r.file_id = file_id

\* a count that takes every location for set
CountAttempted(locations) == Len(locations)

\* the number of locations that hold an elevation
CountSet(locations) == Cardinality({ k \in 1..Len(locations) : ~IsNull(locations[k].elevation) })

\* a write-back that leaves the stored value where the service gave none
elevation_param_or_old(loc, old) == IF IsNull(loc.elevation) THEN old ELSE loc.elevation

\* the value bound to the update statement: loc.elevation().map(|v| v as f64),
\* NULL when the location has no elevation
elevation_param(loc, old) == loc.elevation

\* add_record_elevation_data: collect the selected rows, ask the service,
\* write every location's elevation back by row id
add_record_elevation_data(t, rows, answers, batch_size, fail_k) ==
  LET locations == [k \in 1..Len(rows) |->
                      from_fit_coordinates(rows[k].position_lat[1], rows[k].position_long[1])]
      resp == request_elevation_data(locations, answers, batch_size, fail_k)
  IN  IF ~resp.ok
      THEN [ok |-> FALSE, error |-> "RequestError", tx |-> t, nset |-> 0, nrows |-> 0,
            requests |-> resp.requests]
      ELSE [ok |-> TRUE, error |-> "none",
            tx |-> [t EXCEPT !.records = [i \in 1..Len(t.records) |->
                      IF \E k \in 1..Len(rows) : rows[k].id = t.records[i].id
                      THEN LET k == CHOOSE k \in 1..Len(rows) : rows[k].id = t.records[i].id
                           IN  [t.records[i] EXCEPT !.elevation =
                                  elevation_param(resp.locations[k], t.records[i].elevation)]
                      ELSE t.records[i]]],
            nset |-> CountSet(resp.locations), nrows |-> Len(locations),
            requests |-> resp.requests]

\* add_lap_elevation_data: reading a NULL end coordinate as i32 fails; the
\* start places are requested, then the end places, then both are written
add_lap_elevation_data(t, rows, answers, batch_size, fail_start, fail_end) ==
  LET failed(n, e) == [ok |-> FALSE, error |-> e, tx |-> t, nset |-> 0, nrows |-> 0,
                       requests |-> n]
  IN  IF \E k \in 1..Len(rows) :
           IsNull(rows[k].end_position_lat) \/ IsNull(rows[k].end_position_long)
      THEN failed(0, "Rusqlite")
      ELSE
        LET st_locations == [k \in 1..Len(rows) |->
               from_fit_coordinates(rows[k].start_position_lat[1], rows[k].start_position_long[1])]
            en_locations == [k \in 1..Len(rows) |->
               from_fit_coordinates(rows[k].end_position_lat[1], rows[k].end_position_long[1])]
            st == request_elevation_data(st_locations, answers, batch_size, fail_start)
            en == request_elevation_data(en_locations, answers, batch_size, fail_end)
        IN  IF ~st.ok THEN failed(st.requests, "RequestError")
            ELSE IF ~en.ok THEN failed(st.requests + en.requests, "RequestError")
            ELSE [ok |-> TRUE, error |-> "none",
                  tx |-> [t EXCEPT !.laps = [i \in 1..Len(t.laps) |->
                            IF \E k \in 1..Len(rows) : rows[k].id = t.laps[i].id
                            THEN LET k == CHOOSE k \in 1..Len(rows) : rows[k].id = t.laps[i].id
                                 IN  [t.laps[i] EXCEPT
                                        !.start_elevation =
                                           elevation_param(st.locations[k], t.laps[i].start_elevation),
                                        !.end_elevation =
                                           elevation_param(en.locations[k], t.laps[i].end_elevation)]
                            ELSE t.laps[i]]],
                  nset |-> CountSet(st.locations), nrows |-> Len(st_locations),
                  requests |-> st.requests + en.requests]

\* update_elevation_data on the caller's transaction t.  The function returns
\* Ok(()) or the error (value is the unit); the counts rec_set/rec_rows and
\* lap_set/lap_rows are what its two info! lines log.
update_elevation_data(t, file_id, overwrite, answers, batch_size, fail) ==
  LET rec_test(r) == rec_selected(r, file_id, overwrite)
      lap_test(r) == lap_selected(r, file_id, overwrite)
      rec == add_record_elevation_data(t, SelectSeq(t.records, rec_test), answers, batch_size,
                                       FailAt(fail, "records"))
      lap == add_lap_elevation_data(rec.tx, SelectSeq(rec.tx.laps, lap_test), answers, batch_size,
                                    FailAt(fail, "lap_start"), FailAt(fail, "lap_end"))
      warned == overwrite /\ IsNull(file_id)
  IN  IF ~rec.ok
      THEN [ok |-> FALSE, error |-> rec.error, value |-> <<>>,
            tx |-> rec.tx, warned |-> warned, requests |-> rec.requests,
            rec_set |-> 0, rec_rows |-> 0, lap_set |-> 0, lap_rows |-> 0]
      ELSE IF ~lap.ok
      THEN [ok |-> FALSE, error |-> lap.error, value |-> <<>>,
            tx |-> lap.tx, warned |-> warned,
            requests |-> rec.requests + lap.requests,
            rec_set |-> rec.nset, rec_rows |-> rec.nrows, lap_set |-> 0, lap_rows |-> 0]
      ELSE [ok |-> TRUE, error |-> "none", value |-> <<>>,
            tx |-> lap.tx, warned |-> warned,
            requests |-> rec.requests + lap.requests,
            rec_set |-> rec.nset, rec_rows |-> rec.nrows,
            lap_set |-> lap.nset, lap_rows |-> lap.nrows]

(***************************************************************************)
(* The databases the enrichment starts from: two imported files and up to  *)
(* MaxElevRows of their record and lap rows, as the import leaves them (no *)
(* elevation yet, ids in insertion order, the first file's rows first).    *)
(***************************************************************************)
ImportedFiles ==
  [k \in 1..2 |-> [id |-> k, uuid |-> k, device_serial_number |-> Some(1),
                   time_created |-> Some(1)]]
ImportedRecord(f, lat, long) ==
  [id |-> 0, file_id |-> Some(f), position_lat |-> lat, position_long |-> long,
   elevation |-> NULL, timestamp |-> Some(1), mesg |-> 0]
ImportedLap(f, slat, slong, elat, elong) ==
  [id |-> 0, file_id |-> Some(f),
   start_position_lat |-> slat, start_position_long |-> slong,
   end_position_lat |-> elat, end_position_long |-> elong,
   start_elevation |-> NULL, end_elevation |-> NULL,
   start_time |-> Some(1), timestamp |-> Some(1), mesg |-> 0]

RecordPool ==
  << ImportedRecord(1, Some(1), Some(1)),
     ImportedRecord(1, NULL, Some(1)),
     ImportedRecord(2, Some(2), Some(1)) >>
LapPool ==
  << ImportedLap(1, Some(1), Some(1), Some(2), Some(1)),
     ImportedLap(2, Some(2), Some(1), NULL, NULL),
     ImportedLap(2, Some(1), NULL, Some(2), Some(1)) >>

\* the rows of pool at the indexes S, in order, with the ids the inserts gave
Pick(pool, S) ==
  [k \in 1..Cardinality(S) |->
     LET i == CHOOSE i \in S : Cardinality({ j \in S : j < i }) = k - 1
     IN  [pool[i] EXCEPT !.id = k, !.mesg = k]]

ImportedDbs ==
  { [files |-> ImportedFiles, records |-> Pick(RecordPool, R), laps |-> Pick(LapPool, L)] :
      R \in SUBSET (1..Len(RecordPool)), L \in SUBSET (1..Len(LapPool)) }

InitElev ==
  /\ db \in { d \in ImportedDbs : Len(d.records) + Len(d.laps) <= MaxElevRows }
  /\ tx = NoTx
  /\ caller_tx = FALSE
  /\ pc = "idle"
  /\ imp = NoImport
  /\ result = NoResult
  /\ ret = Returned(NoResult, FALSE)
  /\ enr = NoEnrich
  /\ cmd = NoCmd
  /\ gen = NoGen
  /\ gps = NoGps
  /\ query = NoQuery

\* a caller (update_file, update_elevation_command, import_command) opens a
\* transaction and calls update_elevation_data in it
EnrichCall ==
  /\ pc = "idle"
  /\ \E file_id \in {NULL} \cup { Some(db.files[k].id) : k \in 1..Len(db.files) },
        overwrite \in BOOLEAN, answers \in Answers, batch_size \in BatchSizes,
        fail \in FailPoints :
       LET r == update_elevation_data(OpenTx(db), file_id, overwrite, answers, batch_size, fail)
           again == /\ ~overwrite
                    /\ ~IsNull(enr.prev)
                    /\ enr.prev[1].file_id = file_id
       IN  /\ tx' = r.tx
           /\ enr' = [file_id |-> file_id, overwrite |-> overwrite, answers |-> answers,
                      batch_size |-> batch_size, fail |-> fail,
                      ok |-> r.ok, error |-> r.error, returned |-> r.value,
                      warned |-> r.warned, requests |-> r.requests,
                      rec_set |-> r.rec_set, rec_rows |-> r.rec_rows,
                      lap_set |-> r.lap_set, lap_rows |-> r.lap_rows,
                      again |-> again,
                      first_complete |-> (again /\ enr.prev[1].complete)]
  /\ pc' = "enriched"
  /\ UNCHANGED <<db, impvars, cmd, gen, gps, query>>

\* the caller after update_elevation_data returned: commit on Ok, roll back
\* on an error
EnrichReturn ==
  /\ pc = "enriched"
  /\ db' = IF enr.ok THEN TxDb(tx) ELSE DropTransaction(db, TxDb(tx))
  /\ tx' = NoTx
  /\ enr' = [prev |-> IF enr.ok /\ ~enr.overwrite
                      THEN Some([file_id |-> enr.file_id,
                                 complete |-> (enr.rec_set = enr.rec_rows /\ enr.lap_set = enr.lap_rows)])
                      ELSE NULL]
  /\ pc' = "idle"
  /\ UNCHANGED <<impvars, cmd, gen, gps, query>>

NextElev ==
  \/ EnrichCall
  \/ EnrichReturn

SpecElev == InitElev /\ [][NextElev]_vars

(***************************************************************************)
(* Properties of the enrichment                                            *)
(***************************************************************************)
Called == pc = "enriched"

\* the rows of the call's transaction are those of the database before it
TxUntouched == TxDb(tx) = db

\* the call changed no row that already held an elevation
KeptElevations ==
  /\ \A k \in Indexes(db.records) :
       ~IsNull(db.records[k].elevation) => tx.records[k] = db.records[k]
  /\ \A k \in Indexes(db.laps) :
       ~IsNull(db.laps[k].start_elevation) => tx.laps[k] = db.laps[k]

\* the call, when it succeeds, attempted exactly the rows that overwrite =
\* false selects
SelectedAsWithoutOverwrite ==
  enr.ok =>
    /\ enr.rec_rows = Cardinality({ k \in Indexes(db.records) :
                                      rec_selected(db.records[k], enr.file_id, FALSE) })
    /\ enr.lap_rows = Cardinality({ k \in Indexes(db.laps) :
                                      lap_selected(db.laps[k], enr.file_id, FALSE) })

SelectedRecords ==
  { k \in Indexes(db.records) : rec_selected(db.records[k], enr.file_id, enr.overwrite) }
SelectedLaps ==
  { k \in Indexes(db.laps) : lap_selected(db.laps[k], enr.file_id, enr.overwrite) }
Chunks(n, batch_size) == (n + batch_size - 1) \div batch_size
LapsReadable ==
  \A k \in SelectedLaps :
    ~IsNull(db.laps[k].end_position_lat) /\ ~IsNull(db.laps[k].end_position_long)

\* the service failed on a request that the running call really sent
ServiceFailed ==
  /\ Called
  /\ \/ /\ enr.fail.phase = "records"
        /\ enr.fail.k <= Chunks(Cardinality(SelectedRecords), enr.batch_size)
     \/ /\ enr.fail.phase \in {"lap_start", "lap_end"}
        /\ LapsReadable
        /\ enr.fail.k <= Chunks(Cardinality(SelectedLaps), enr.batch_size)

\* C11: when the elevation service fails on a request of the call (records,
\* lap starts or lap ends, any sub-batch), update_elevation_data returns that
\* error, and the caller's rollback leaves the database as it was before the
\* call: nothing the call wrote is visible.
C11_ServiceFailureLeavesNothing ==
  /\ [](ServiceFailed => (~enr.ok /\ enr.error = "RequestError"))
  /\ [][ServiceFailed => (db' = db /\ tx' = NoTx)]_vars

\* the lap requests failed after the call had written record elevations
C11_Witness ==
  /\ ServiceFailed
  /\ enr.fail.phase \in {"lap_start", "lap_end"}
  /\ \E k \in Indexes(db.records) :
       IsNull(db.records[k].elevation) /\ ~IsNull(tx.records[k].elevation)

\* C12: the call changes only rows of its selection: no row with a null
\* latitude or longitude, with overwrite = false no row that already has an
\* elevation (start_elevation for laps), and with a file identifier no row of
\* another file; the tables keep their rows.
C12_OnlySelectedRowsChange ==
  Called =>
    /\ tx.files = db.files
    /\ Len(tx.records) = Len(db.records)
    /\ Len(tx.laps) = Len(db.laps)
    /\ \A k \in Indexes(db.records) :
         LET r == db.records[k]
         IN  ( \/ IsNull(r.position_lat) \/ IsNull(r.position_long)
               \/ (~enr.overwrite /\ ~IsNull(r.elevation))
               \/ (~IsNull(enr.file_id) /\ r.file_id # enr.file_id) )
             => tx.records[k] = r
    /\ \A k \in Indexes(db.laps) :
         LET r == db.laps[k]
         IN  ( \/ IsNull(r.start_position_lat) \/ IsNull(r.start_position_long)
               \/ IsNull(r.end_position_lat) \/ IsNull(r.end_position_long)
               \/ (~enr.overwrite /\ ~IsNull(r.start_elevation))
               \/ (~IsNull(enr.file_id) /\ r.file_id # enr.file_id) )
             => tx.laps[k] = r

\* the place of a row's coordinates, as the service is asked for it
PlaceOf(lat, long) ==
  LET l == from_fit_coordinates(lat[1], long[1]) IN <<l.latitude, l.longitude>>

\* a call on one file that changed a record of it, next to a record without
\* latitude and a record of the other file that it could have filled
C12_Witness ==
  /\ Called /\ enr.ok /\ ~IsNull(enr.file_id)
  /\ \E k \in Indexes(db.records) : tx.records[k] # db.records[k]
  /\ \E k \in Indexes(db.records) : IsNull(db.records[k].position_lat)
  /\ \E k \in Indexes(db.records) :
       /\ db.records[k].file_id # enr.file_id
       /\ ~IsNull(db.records[k].position_lat)
       /\ IsNull(db.records[k].elevation)
       /\ ~IsNull(enr.answers[PlaceOf(db.records[k].position_lat,
                                       db.records[k].position_long)])

\* C13: after a successful call every selected row holds, under its own row
\* id, what the service answered for its place: that elevation, or NULL when
\* the service gave none (records: elevation; laps: start_elevation from the
\* start place and end_elevation from the end place).
C13_EverySelectedRowWritten ==
  (Called /\ enr.ok) =>
    /\ \A k \in SelectedRecords :
         /\ tx.records[k].id = db.records[k].id
         /\ tx.records[k].elevation =
              enr.answers[PlaceOf(db.records[k].position_lat, db.records[k].position_long)]
    /\ \A k \in SelectedLaps :
         /\ tx.laps[k].id = db.laps[k].id
         /\ tx.laps[k].start_elevation =
              enr.answers[PlaceOf(db.laps[k].start_position_lat, db.laps[k].start_position_long)]
         /\ tx.laps[k].end_elevation =
              enr.answers[PlaceOf(db.laps[k].end_position_lat, db.laps[k].end_position_long)]

\* an overwriting call that replaced a stored elevation by NULL and gave a
\* lap an end elevation
C13_Witness ==
  /\ Called /\ enr.ok /\ enr.overwrite
  /\ \E k \in SelectedRecords :
       ~IsNull(db.records[k].elevation) /\ IsNull(tx.records[k].elevation)
  /\ \E k \in SelectedLaps : ~IsNull(tx.laps[k].end_elevation)

\* the counts of the running call are consistent with its selection
CountsOfSelection ==
  /\ enr.rec_rows = Cardinality(SelectedRecords)
  /\ enr.lap_rows = Cardinality(SelectedLaps)
  /\ enr.rec_set <= enr.rec_rows
  /\ enr.lap_set <= enr.lap_rows

MaxLoopFiles == 2

\* uuids a user may name; 3 names no file of the database
LoopUuids == {1, 2, 3}
\* the files an import hands on; 0 stands for a FileInfo without an id
ImportedUuids == {0, 1, 2}

FileLists(S) ==
  { l \in UNION { [1..n -> S] : n \in 1..MaxLoopFiles } :
      \A i, j \in 1..Len(l) : i # j => l[i] # l[j] }
Ascending(l) == \A i, j \in 1..Len(l) : i < j => l[i] < l[j]

\* find_file_by_uuid: the first files row with that uuid, or
\* FileDoesNotExistError
find_file_by_uuid(d, uuid) ==
  IF file_exists(d, uuid)
  THEN LET k == CHOOSE k \in 1..Len(d.files) :
                  /\ d.files[k].uuid = uuid
                  /\ \A j \in 1..(k - 1) : d.files[j].uuid # uuid
       IN  [ok |-> TRUE, error |-> "none", id |-> Some(d.files[k].id)]
  ELSE [ok |-> FALSE, error |-> "FileDoesNotExistError", id |-> NULL]

\* the FileInfo of the file the loop is at: update_file looks the uuid up,
\* import_command holds the FileInfo the import returned
LoopFileInfo ==
  LET uuid == cmd.files[cmd.i]
  IN  IF cmd.name = "import" /\ uuid = 0
      THEN [ok |-> TRUE, error |-> "none", id |-> NULL]
      ELSE find_file_by_uuid(db, uuid)

Looping == cmd.name \in {"update_elevation", "import"} /\ cmd.status = "running"

InitLoop == InitElev

\* the command reaches its loop: update_elevation_command over the uuids of
\* its options, import_command over the files it has just imported (always
\* overwriting)
LoopStart ==
  /\ pc = "idle"
  /\ cmd = NoCmd
  /\ \/ \E uuids \in FileLists(LoopUuids), overwrite \in BOOLEAN :
          cmd' = [name |-> "update_elevation", files |-> uuids, overwrite |-> overwrite,
                  i |-> 1, status |-> "running"]
     \/ \E files \in { l \in FileLists(ImportedUuids) : Ascending(l) } :
          cmd' = [name |-> "import", files |-> files, overwrite |-> TRUE,
                  i |-> 1, status |-> "running"]
  /\ UNCHANGED <<db, tx, pc, enr, impvars, gen, gps, query>>

\* an iteration that makes no call: the file has no id (logged, next file),
\* or update_file does not find the uuid and returns the error, which ends
\* update_elevation_command
UpdateFileSkip ==
  /\ pc = "idle"
  /\ Looping
  /\ cmd.i <= Len(cmd.files)
  /\ LET info == LoopFileInfo
     IN  /\ ~info.ok \/ IsNull(info.id)
         /\ cmd' = IF info.ok THEN [cmd EXCEPT !.i = @ + 1]
                              ELSE [cmd EXCEPT !.status = info.error]
  /\ UNCHANGED <<db, tx, pc, enr, impvars, gen, gps, query>>

\* an iteration up to the return of update_elevation_data: a transaction of
\* its own, the call on the file's id
UpdateFileCall ==
  /\ pc = "idle"
  /\ Looping
  /\ cmd.i <= Len(cmd.files)
  /\ LET info == LoopFileInfo
     IN  /\ info.ok /\ ~IsNull(info.id)
         /\ \E answers \in Answers, batch_size \in BatchSizes, fail \in FailPoints :
              LET r == update_elevation_data(OpenTx(db), info.id, cmd.overwrite, answers,
                                             batch_size, fail)
              IN  /\ tx' = r.tx
                  /\ enr' = [file_id |-> info.id, overwrite |-> cmd.overwrite,
                             answers |-> answers, batch_size |-> batch_size, fail |-> fail,
                             ok |-> r.ok, error |-> r.error, returned |-> r.value,
                             warned |-> r.warned, requests |-> r.requests,
                             rec_set |-> r.rec_set, rec_rows |-> r.rec_rows,
                             lap_set |-> r.lap_set, lap_rows |-> r.lap_rows,
                             again |-> FALSE, first_complete |-> FALSE]
  /\ pc' = "enriched"
  /\ UNCHANGED <<db, impvars, cmd, gen, gps, query>>

\* the rest of the iteration: Ok is committed (a failed commit ends the
\* command with the error); an error of update_elevation_data is rolled back
\* and logged, and the loop goes on
UpdateFileReturn ==
  /\ pc = "enriched"
  /\ Looping
  /\ IF enr.ok
     THEN \E committed \in BOOLEAN :
            IF committed
            THEN /\ db' = TxDb(tx)
                 /\ cmd' = [cmd EXCEPT !.i = @ + 1]
            ELSE /\ db' = DropTransaction(db, TxDb(tx))
                 /\ cmd' = [cmd EXCEPT !.status = "Rusqlite"]
     ELSE /\ db' = DropTransaction(db, TxDb(tx))
          /\ cmd' = [cmd EXCEPT !.i = @ + 1]
  /\ tx' = NoTx
  /\ enr' = NoEnrich
  /\ pc' = "idle"
  /\ UNCHANGED <<impvars, gen, gps, query>>

\* the loop is through
LoopEnd ==
  /\ pc = "idle"
  /\ Looping
  /\ cmd.i > Len(cmd.files)
  /\ cmd' = [cmd EXCEPT !.status = "ok"]
  /\ UNCHANGED <<db, tx, pc, enr, impvars, gen, gps, query>>

NextLoop ==
  \/ LoopStart
  \/ UpdateFileSkip
  \/ UpdateFileCall
  \/ UpdateFileReturn
  \/ LoopEnd

SpecLoop == InitLoop /\ [][NextLoop]_vars

\* the enrichment of the loop's current file has failed
LoopEnrichmentFailed == pc = "enriched" /\ Looping /\ ~enr.ok

MaxPaths == 2
\* deepest nesting of import_files calls (directories within directories)
MaxDepth == 2

\* the files found at the paths of a batch
BatchFiles ==
  { [valid |-> TRUE, mesgs |-> <<FileIdMesg>>],
    [valid |-> TRUE, mesgs |-> <<FileIdMesg, RecordMesg(Some(1), Some(1), Some(1))>>],
    [valid |-> TRUE, mesgs |-> <<RecordMesg(Some(1), Some(1), Some(1))>>],
    [valid |-> FALSE, mesgs |-> <<>>] }

ErrorBehaviors == {"Error", "Warn", "Suppress"}

\* a command that warns about every duplicate
dupe_err_always_warn(n_paths) == "Warn"

\* import_command: duplicates are a hard error only when there is a single
\* import path
dupe_err(n_paths) == IF n_paths = 1 THEN "Error" ELSE "Warn"

\* a batch in one transaction: an error undoes the files imported before
after_error_batch_undone(d, start) == start

\* the database after import_files returned an error: nothing is undone
after_error(d, start) == d

\* the match of import_files on the result of import_file: "push" the file
\* info, "continue" with the next path, or "return" the error
import_files_match(r, dupe_behavior, import_err) ==
  IF r.ok THEN "push"
  ELSE IF r.error = "DuplicateFileError"
       THEN (IF dupe_behavior = "Error" THEN "return" ELSE "continue")
       ELSE (IF import_err = "Error" THEN "return" ELSE "continue")

NoReturn == Returned(NoResult, FALSE)
\* import_file has returned and import_files has not yet looked at the result
Pending == pc = "idle" /\ ret # NoReturn
Batching == cmd.name = "import_files" /\ cmd.status = "running"
Top == cmd.stack[Len(cmd.stack)]
\* the running import_files call is through with one more of its paths
PathDone(stack) == [stack EXCEPT ![Len(stack)].remaining = @ - 1]

InitBatch == Init

\* import_command up to its call of import_files
ImportCommandStart ==
  /\ pc = "idle"
  /\ ~Batching
  /\ \E n_paths \in 0..MaxPaths, import_err \in ErrorBehaviors, recursive \in BOOLEAN :
       cmd' = [name |-> "import_files", n_paths |-> n_paths, import_err |-> import_err,
               recursive |-> recursive,
               stack |-> <<[remaining |-> n_paths, dupe_err |-> dupe_err(n_paths)]>>,
               file_infos |-> <<>>, start |-> db,
               status |-> IF n_paths = 0 THEN "Other" ELSE "running"]
  /\ ret' = NoReturn
  /\ UNCHANGED <<db, tx, caller_tx, pc, imp, result, enr, gen, gps, query>>

\* the next path does not exist: warn and continue
ImportFilesMissingPath ==
  /\ pc = "idle" /\ Batching /\ ~Pending
  /\ Top.remaining > 0
  /\ cmd' = [cmd EXCEPT !.stack = PathDone(@)]
  /\ UNCHANGED <<db, tx, caller_tx, pc, imp, result, ret, enr, gen, gps, query>>

\* the next path is a directory (within a directory only when recursive):
\* read_dir fails, or import_files is called on its entries with duplicates
\* suppressed
ImportFilesDirectory ==
  /\ pc = "idle" /\ Batching /\ ~Pending
  /\ Top.remaining > 0
  /\ Len(cmd.stack) < MaxDepth
  /\ Len(cmd.stack) > 1 => cmd.recursive
  /\ \/ cmd' = [cmd EXCEPT !.status = "Io"]
     \/ \E n \in 0..MaxPaths :
          cmd' = [cmd EXCEPT !.stack =
                    Append(PathDone(@), [remaining |-> n, dupe_err |-> "Suppress"])]
  /\ UNCHANGED <<db, tx, caller_tx, pc, imp, result, ret, enr, gen, gps, query>>

\* the next path is a file: import_file is called on it
ImportFilesCall ==
  /\ Batching /\ ~Pending
  /\ Top.remaining > 0
  /\ ImportFileOn(BatchFiles)

\* import_files looks at what import_file returned
ImportFilesMatch ==
  /\ Batching /\ Pending
  /\ LET todo == import_files_match(ret, Top.dupe_err, cmd.import_err)
     IN  /\ cmd' = IF todo = "push"
                   THEN [cmd EXCEPT !.stack = PathDone(@),
                                    !.file_infos = Append(@, ret.value)]
                   ELSE IF todo = "continue"
                   THEN [cmd EXCEPT !.stack = PathDone(@)]
                   ELSE [cmd EXCEPT !.status = ret.error]
         /\ db' = IF todo = "return" THEN after_error(db, cmd.start) ELSE db
  /\ ret' = NoReturn
  /\ UNCHANGED <<tx, caller_tx, pc, imp, result, enr, gen, gps, query>>

\* a call of import_files is through with its paths: a nested call hands its
\* file infos to the calling one, the outermost one to import_command
ImportFilesReturn ==
  /\ pc = "idle" /\ Batching /\ ~Pending
  /\ Top.remaining = 0
  /\ cmd' = IF Len(cmd.stack) > 1
            THEN [cmd EXCEPT !.stack = SubSeq(@, 1, Len(@) - 1)]
            ELSE [cmd EXCEPT !.status = "ok"]
  /\ UNCHANGED <<db, tx, caller_tx, pc, imp, result, ret, enr, gen, gps, query>>

NextBatch ==
  \/ ImportCommandStart
  \/ ImportFilesMissingPath
  \/ ImportFilesDirectory
  \/ ImportFilesCall
  \/ ImportFitDataStart
  \/ ImportMesg
  \/ ImportFitDataCommit
  \/ ImportFileReturn
  \/ ImportFilesMatch
  \/ ImportFilesReturn

SpecBatch == InitBatch /\ [][NextBatch]_vars

(***************************************************************************)
(* Properties of the batch                                                 *)
(***************************************************************************)
\* import_files returned an error to import_command
BatchStopped == cmd.name = "import_files" /\ cmd.status \notin {"running", "ok", "Other"}

IsPrefix(old, new) == Len(old) <= Len(new) /\ SubSeq(new, 1, Len(old)) = old

\* the rows of the imported file with this uuid are committed: its files row,
\* and as many record rows as the file has record messages
FileCommitted(uuid) ==
  LET f == CHOOSE f \in BatchFiles : Fingerprint(f) = uuid
  IN  /\ file_exists(db, uuid)
      /\ Cardinality({ k \in Indexes(db.records) : OwnerUuid(db, db.records[k]) = uuid })
           = Cardinality({ k \in Indexes(f.mesgs) : f.mesgs[k].kind = "record" })

\* C16: every file of a batch is committed by its own import_file call: the
\* rows of every file that import_files has taken into its list are in the
\* database, from then on and also after a later file has failed and the
\* batch has stopped with that error; nothing that was committed before the
\* command started is lost either.
C16_EarlierFilesStayCommitted ==
  cmd.name = "import_files" =>
    /\ \A k \in Indexes(cmd.file_infos) : FileCommitted(cmd.file_infos[k])
    /\ IsPrefix(cmd.start.files, db.files)
    /\ IsPrefix(cmd.start.records, db.records)

\* a batch of several paths stopped at a later file; the file before it is
\* committed with its record
C16_Witness ==
  /\ BatchStopped
  /\ cmd.n_paths > 1
  /\ cmd.status \in {"FitParser", "Rusqlite"}
  /\ cmd.file_infos # <<>>
  /\ db.records # <<>>

\* C17: DuplicateFileError is the only error of import_file that import_files
\* continues past; any other error stops the batch and is returned.
C17_OtherErrorsStopTheBatch ==
  [][(Batching /\ Pending /\ ~ret.ok /\ ret.error # "DuplicateFileError")
       => cmd'.status = ret.error]_vars

\* C18: when the command has exactly one import path and that path is a file
\* whose import yields DuplicateFileError, import_files returns that error
\* (it neither warns and continues nor suppresses it).
C18_SingleFileDuplicateFails ==
  [][(Batching /\ Pending /\ cmd.n_paths = 1 /\ Len(cmd.stack) = 1
        /\ ret.error = "DuplicateFileError")
       => (cmd'.status = "DuplicateFileError" /\ db' = db)]_vars

\* import_file has returned DuplicateFileError for the only path
C18_Witness ==
  /\ Batching /\ Pending /\ cmd.n_paths = 1 /\ Len(cmd.stack) = 1
  /\ ret.error = "DuplicateFileError"
  /\ file_exists(db, ret.value)

\* C19: import_file copies the file only after import_fit_data has returned
\* Ok and the commit has succeeded: a call that made a copy returns Ok, and a
\* call that returns an error (of import_fit_data, of the commit, of the
\* copy) has made no copy.
C19_CopyOnlyAfterCommit ==
  /\ [](ret.copied => ret.ok)
  /\ [][(ret'.copied /\ ret' # ret) => (pc = "returned" /\ result.ok)]_vars

\* import_file has copied a file whose rows are committed
C19_Witness ==
  /\ ret.copied
  /\ pc = "idle"
  /\ file_exists(db, ret.value)

(***************************************************************************)
(* generate_uuid: the fingerprint of a file's bytes                        *)
(***************************************************************************)
\* longest input of generate_uuid
MaxData == 1
\* most calls of generate_uuid in one run
MaxCalls == 2

DataBytes == {0, 255}
\* the byte sequences generate_uuid is called with, the empty one included
Data == UNION { [1..n -> DataBytes] : n \in 0..MaxData }

\* the SHA-256 digest of the empty byte sequence
Sha256Empty ==
  <<227, 176, 196, 66, 152, 252, 28, 20, 154, 251, 244, 200, 153, 111, 185, 36,
    39, 174, 65, 228, 100, 155, 147, 76, 164, 149, 153, 27, 120, 82, 184, 85>>

\* digests of 32 bytes that differ in byte 6, in byte 10 and in the others
DigestBytes == {0, 165, 255}
DigestOf(b6, b10) ==
  [k \in 1..32 |-> IF k = 7 THEN b6 ELSE IF k = 11 THEN b10
                   ELSE (b6 + b10 + 7 * k) % 256]
Digests == { DigestOf(b, b) : b \in DigestBytes }

\* a hasher seeded anew for every call: the digest of an input that was hashed
\* before is any digest again
Sha256Seeded(hashed, data) == Digests

\* Sha256 is a function of the data that the model does not compute: hashed
\* holds the digests it has returned so far, and the digest of a new input
\* is any digest (the known one for the empty input)
Sha256(hashed, data) ==
  IF data \in DOMAIN hashed THEN {hashed[data]}
  ELSE IF data = <<>> THEN {Sha256Empty}
  ELSE Digests

\* a & b and a | b on u8
RECURSIVE BitAnd(_, _)
BitAnd(a, b) ==
  IF a = 0 \/ b = 0 THEN 0
  ELSE (a % 2) * (b % 2) + 2 * BitAnd(a \div 2, b \div 2)

RECURSIVE BitOr(_, _)
BitOr(a, b) ==
  IF a = 0 THEN b
  ELSE IF b = 0 THEN a
  ELSE (IF a % 2 = 1 \/ b % 2 = 1 THEN 1 ELSE 0) + 2 * BitOr(a \div 2, b \div 2)

\* result[6] = (result[6] & 0b00001111) | 0b01001111;
\* result[10] = (result[10] & 0b00111111) | 0b10111111;
set_bits(digest) ==
  [digest EXCEPT ![7] = BitOr(BitAnd(@, 15), 79),
                 ![11] = BitOr(BitAnd(@, 63), 191)]

HexDigits == <<"0", "1", "2", "3", "4", "5", "6", "7",
               "8", "9", "a", "b", "c", "d", "e", "f">>

\* hex::encode: two lower-case digits per byte, the high nibble first
hex_encode(bytes) ==
  [i \in 1..(2 * Len(bytes)) |->
     LET b == bytes[(i + 1) \div 2]
     IN  IF i % 2 = 1 THEN HexDigits[(b \div 16) + 1] ELSE HexDigits[(b % 16) + 1]]

\* String::truncate
truncate(s, new_len) == IF new_len < Len(s) THEN SubSeq(s, 1, new_len) ELSE s

\* String::insert: ch comes to stand at the (0-based) position idx
insert(s, idx, ch) == SubSeq(s, 1, idx) \o <<ch>> \o SubSeq(s, idx + 1, Len(s))

\* the dashes inserted from the front, at positions counted without them
generate_uuid_dashes_ascending(digest) ==
  LET uuid == truncate(hex_encode(set_bits(digest)), 32)
  IN  insert(insert(insert(insert(uuid, 8, "-"), 12, "-"), 16, "-"), 20, "-")

\* generate_uuid from the digest on
generate_uuid(digest) ==
  LET uuid == truncate(hex_encode(set_bits(digest)), 32)
  IN  insert(insert(insert(insert(uuid, 20, "-"), 16, "-"), 12, "-"), 8, "-")

\* the fingerprint of every digest of the model, computed once
Fingerprints == [digest \in Digests \cup {Sha256Empty} |-> generate_uuid(digest)]

InitUuid ==
  /\ Init
  /\ gen = NoGen
  /\ gps = NoGps
  /\ query = NoQuery

NoneHashed == [d \in {} |-> <<>>]

\* the file that is imported between two calls
UuidFile == [valid |-> TRUE, mesgs |-> <<FileIdMesg>>]

\* one call of generate_uuid; returned keeps, for every input, the fingerprint
\* of the latest call with it and the number of rows the database held then,
\* and before is that entry of the earlier call with the same input, if any
GenerateUuid ==
  /\ pc = "idle"
  /\ cmd = NoCmd
  /\ LET calls == IF gen.called THEN gen.calls ELSE 0
         hashed == IF gen.called THEN gen.hashed ELSE NoneHashed
         returned == IF gen.called THEN gen.returned ELSE NoneHashed
     IN  /\ calls < MaxCalls
         /\ \E data \in Data :
              \E digest \in Sha256(hashed, data) :
                LET uuid == Fingerprints[digest]
                    now == [uuid |-> uuid, rows |-> TotalRows(db)]
                IN  gen' = [called |-> TRUE, calls |-> calls + 1,
                            hashed |-> [d \in DOMAIN hashed \cup {data} |->
                                          IF d = data THEN digest ELSE hashed[d]],
                            returned |-> [d \in DOMAIN returned \cup {data} |->
                                            IF d = data THEN now ELSE returned[d]],
                            before |-> IF data \in DOMAIN returned
                                       THEN <<returned[data]>> ELSE <<>>,
                            data |-> data,
                            uuid |-> uuid]
  /\ UNCHANGED <<db, tx, caller_tx, pc, imp, result, ret, enr, cmd, gps, query>>

\* import_file is called on a file between two calls of generate_uuid
UuidImportFile ==
  /\ cmd = NoCmd
  /\ ImportFileOn({UuidFile})

NextUuid ==
  \/ GenerateUuid
  \/ UuidImportFile
  \/ ImportFitDataStart
  \/ ImportMesg
  \/ ImportFitDataCommit
  \/ ImportFileReturn

SpecUuid == InitUuid /\ [][NextUuid]_vars

(***************************************************************************)
(* Properties of generate_uuid                                             *)
(***************************************************************************)
\* the value of a hex digit
HexValue(ch) == (CHOOSE i \in 1..16 : HexDigits[i] = ch) - 1

\* the fingerprint without its dashes
Undashed(uuid) == SelectSeq(uuid, LAMBDA ch : ch # "-")

\* byte k (from 0) of the fingerprint
FingerprintByte(uuid, k) ==
  LET hex == Undashed(uuid)
  IN  16 * HexValue(hex[2 * k + 1]) + HexValue(hex[2 * k + 2])

\* bit j (from 0, the lowest) of a byte
Bit(b, j) == (b \div (2 ^ j)) % 2

\* the digest of the data of the last call
LastDigest == gen.hashed[gen.data]

\* C20: generate_uuid changes only the version and the variant bits: in the
\* fingerprint, bits 4-7 of byte 6 are 0100 and bits 6-7 of byte 10 are 10,
\* and every other bit of the first 16 bytes is the digest's bit, the low
\* nibble of byte 6 and the low six bits of byte 10 included.
C20_OnlyVersionAndVariantBitsChange ==
  gen.called =>
    \A k \in 0..15 : \A j \in 0..7 :
      Bit(FingerprintByte(gen.uuid, k), j) =
        IF k = 6 /\ j \in 4..7 THEN Bit(64, j)
        ELSE IF k = 10 /\ j \in 6..7 THEN Bit(128, j)
        ELSE Bit(LastDigest[k + 1], j)

\* C21: for every input, the empty one included, generate_uuid returns a
\* string of 36 characters: five groups of 8, 4, 4, 4 and 12 hexadecimal
\* digits with a dash between them, and the 32 digits read as bytes are the
\* first 16 bytes of the digest after its bits were set, in order.
C21_FingerprintFormat ==
  gen.called =>
    /\ Len(gen.uuid) = 36
    /\ \A i \in 1..36 :
         IF i \in {9, 14, 19, 24}
         THEN gen.uuid[i] = "-"
         ELSE \E h \in 1..16 : gen.uuid[i] = HexDigits[h]
    /\ \A k \in 0..15 : FingerprintByte(gen.uuid, k) = set_bits(LastDigest)[k + 1]

\* generate_uuid was called with the empty input and returned its fingerprint
C21_Witness ==
  /\ gen.called
  /\ gen.data = <<>>
  /\ gen.uuid[9] = "-"
  /\ FingerprintByte(gen.uuid, 0) = 227

MaxPoints == 3

Location(latitude, longitude) ==
  [latitude |-> latitude, longitude |-> longitude, elevation |-> NULL]

\* the Locations encode_coordinates is called with; the f32 next to
\* (38.5, -120.2), (40.7, -120.95), (43.252, -126.453), the origin, the
\* corners (90, 180) and (-90, -180), (84.015625, 170.00003) whose products
\* with 100000 are not f32 values, and a Location made from semicircles
LocationPool ==
  { Location(F32(FALSE, 10092544, -18), F32(TRUE, 15754854, -17)),
    Location(F32(FALSE, 10669261, -18), F32(TRUE, 15853158, -17)),
    Location(F32(FALSE, 11338252, -18), F32(TRUE, 16574448, -17)),
    Location(F32(FALSE, 0, 0), F32(FALSE, 0, 0)),
    Location(F32(FALSE, 11796480, -17), F32(FALSE, 11796480, -16)),
    Location(F32(TRUE, 11796480, -17), F32(TRUE, 11796480, -16)),
    Location(F32(FALSE, 11012096, -17), F32(FALSE, 11141122, -16)),
    from_fit_coordinates(-1, 1) }

Coordinates == UNION { [1..n -> LocationPool] : n \in 0..MaxPoints }

\* (FACTOR * n).round() as i32 with FACTOR = 100_000.0
scale(n) == RoundAsI32(MulF32(n, 3125, 5))

\* char::from_u32: the char of a code point, none for a surrogate or a
\* number above 0x10FFFF; a char is held as its code point
from_u32(u) ==
  IF (0 <= u /\ u < 55296) \/ (57343 < u /\ u <= 1114111) THEN Some(u) ELSE NULL

\* the while loop of encode and the push of the last character
RECURSIVE encode_loop(_, _)
encode_loop(coordinate, output) ==
  IF coordinate >= 32
  THEN LET from_char == from_u32(BitOr(32, BitAnd(coordinate, 31)) + 63)
       IN  IF IsNull(from_char) THEN Err("Couldn't convert character", 0)
           ELSE encode_loop(coordinate \div 32, Append(output, from_char[1]))
  ELSE LET from_char == from_u32(coordinate + 63)
       IN  IF IsNull(from_char) THEN Err("Couldn't convert character", 0)
           ELSE Ok(Append(output, from_char[1]))

\* an encode that shifts without inverting the negative differences
encode_without_inversion(current, previous) ==
  encode_loop(IF current < previous THEN 2 * (previous - current) ELSE 2 * (current - previous), <<>>)

\* encode: the difference shifted left by one, inverted when it is negative
\* (the shift cannot overflow for scaled degrees)
encode(current, previous) ==
  LET shifted == (current - previous) * 2
      coordinate == IF current - previous < 0 THEN -shifted - 1 ELSE shifted
  IN  encode_loop(coordinate, <<>>)

\* the for loop of encode_coordinates from the k-th Location on
RECURSIVE encode_from(_, _, _, _)
encode_from(coordinates, k, b, output) ==
  IF k > Len(coordinates) THEN Ok(output)
  ELSE LET a == <<scale(coordinates[k].latitude), scale(coordinates[k].longitude)>>
           lat == encode(a[1], b[1])
           long == encode(a[2], b[2])
       IN  IF ~lat.ok THEN lat
           ELSE IF ~long.ok THEN long
           ELSE encode_from(coordinates, k + 1, a, output \o lat.value \o long.value)

encode_coordinates(coordinates) == encode_from(coordinates, 1, <<0, 0>>, <<>>)

InitGps == Init

\* a call of Location::from_fit_coordinates
FromFitCoordinates ==
  /\ pc = "idle"
  /\ cmd = NoCmd
  /\ ~gps.called
  /\ \E latitude \in Semicircles, longitude \in Semicircles :
       gps' = [called |-> TRUE, fn |-> "from_fit_coordinates",
               args |-> <<latitude, longitude>>,
               value |-> from_fit_coordinates(latitude, longitude)]
  /\ UNCHANGED <<db, tx, caller_tx, pc, imp, result, ret, enr, cmd, gen, query>>

\* a call of encode_coordinates
EncodeCoordinates ==
  /\ pc = "idle"
  /\ cmd = NoCmd
  /\ ~gps.called
  /\ \E coordinates \in Coordinates :
       gps' = [called |-> TRUE, fn |-> "encode_coordinates",
               args |-> coordinates,
               value |-> encode_coordinates(coordinates)]
  /\ UNCHANGED <<db, tx, caller_tx, pc, imp, result, ret, enr, cmd, gen, query>>

NextGps ==
  \/ FromFitCoordinates
  \/ EncodeCoordinates

SpecGps == InitGps /\ [][NextGps]_vars

(***************************************************************************)
(* Properties of the gps module                                            *)
(***************************************************************************)
\* the characters of the polyline alphabet, from code point 63 on (92 and 96
\* by their names)
PolylineChars ==
  <<"?", "@", "A", "B", "C", "D", "E", "F", "G", "H", "I", "J", "K", "L", "M", "N",
    "O", "P", "Q", "R", "S", "T", "U", "V", "W", "X", "Y", "Z", "[", "backslash", "]", "^",
    "_", "backtick", "a", "b", "c", "d", "e", "f", "g", "h", "i", "j", "k", "l", "m", "n",
    "o", "p", "q", "r", "s", "t", "u", "v", "w", "x", "y", "z", "{", "|", "}", "~">>

\* the code points of a string given character by character
CodePoints(chars) ==
  [i \in 1..Len(chars) |-> 62 + (CHOOSE c \in 1..64 : PolylineChars[c] = chars[i])]

\* encode_coordinates was called with [(38.5, -120.2), (40.7, -120.95)]
EncodedTwoPoints ==
  /\ gps.called
  /\ gps.fn = "encode_coordinates"
  /\ gps.args = << Location(F32(FALSE, 10092544, -18), F32(TRUE, 15754854, -17)),
                   Location(F32(FALSE, 10669261, -18), F32(TRUE, 15853158, -17)) >>

\* C23 as the spec states it: encode_coordinates of the two points
\* [(38.5, -120.2), (40.7, -120.95)] returns the spec's literal
\* _p~iF~ps|U_ulLnnqC_mqNvxq followed by a backtick, a backslash and a
\* backtick
C23_TwoPointsGiveSpecLiteral ==
  EncodedTwoPoints =>
    gps.value = Ok(CodePoints(<<"_", "p", "~", "i", "F", "~", "p", "s", "|", "U",
                                "_", "u", "l", "L", "n", "n", "q", "C",
                                "_", "m", "q", "N", "v", "x", "q", "backtick", "backslash", "backtick">>))

\* encode_coordinates was called with the three points of the standard
\* algorithm's reference vector
EncodedThreePoints ==
  /\ gps.called
  /\ gps.fn = "encode_coordinates"
  /\ gps.args = << Location(F32(FALSE, 10092544, -18), F32(TRUE, 15754854, -17)),
                   Location(F32(FALSE, 10669261, -18), F32(TRUE, 15853158, -17)),
                   Location(F32(FALSE, 11338252, -18), F32(TRUE, 16574448, -17)) >>

\* C23: encode_coordinates of the two points [(38.5, -120.2), (40.7, -120.95)]
\* returns _p~iF~ps|U_ulLnnqC, the first 18 characters of the standard
\* algorithm's reference string; the whole reference string,
\* _p~iF~ps|U_ulLnnqC_mqNvxq followed by a backtick and @, is what it returns
\* for the three points that end with (43.252, -126.453).
C23_TwoPointsGiveReferencePrefix ==
  /\ EncodedTwoPoints =>
       gps.value = Ok(CodePoints(<<"_", "p", "~", "i", "F", "~", "p", "s", "|", "U",
                                   "_", "u", "l", "L", "n", "n", "q", "C">>))
  /\ EncodedThreePoints =>
       gps.value = Ok(CodePoints(<<"_", "p", "~", "i", "F", "~", "p", "s", "|", "U",
                                   "_", "u", "l", "L", "n", "n", "q", "C",
                                   "_", "m", "q", "N", "v", "x", "q", "backtick", "@">>))

\* the two points were encoded to a string of 18 characters
C23_Witness ==
  /\ EncodedTwoPoints
  /\ gps.value.ok
  /\ Len(gps.value.value) = 18

\* the reference polyline decoder: every character minus 63 gives a chunk of
\* 5 bits, the lowest first, and 0x20 says that another chunk follows; the
\* number the chunks make is then taken back from its zig-zag form
Unzigzag(u) == IF u % 2 = 1 THEN -(u \div 2) - 1 ELSE u \div 2

RECURSIVE DecodeDeltas(_, _, _, _)
DecodeDeltas(codes, k, acc, shift) ==
  IF k > Len(codes) THEN <<>>
  ELSE LET v == codes[k] - 63
           sum == acc + (v % 32) * 2 ^ shift
       IN  IF v >= 32 THEN DecodeDeltas(codes, k + 1, sum, shift + 5)
           ELSE <<Unzigzag(sum)>> \o DecodeDeltas(codes, k + 1, 0, 0)

\* the deltas summed up from the origin, latitude then longitude
RECURSIVE DecodePoints(_, _, _)
DecodePoints(deltas, k, prev) ==
  IF 2 * k > Len(deltas) THEN <<>>
  ELSE LET point == <<prev[1] + deltas[2 * k - 1], prev[2] + deltas[2 * k]>>
       IN  <<point>> \o DecodePoints(deltas, k + 1, point)

Decode(codes) == DecodePoints(DecodeDeltas(codes, 1, 0, 0), 1, <<0, 0>>)

\* the value of an f32 times 100000, rounded to the nearest integer (a half
\* away from zero), computed without rounding the product first
TimesFactorRounded(x) ==
  LET a == x.m \div 4096
      b == x.m % 4096
      H == 3125 * a + ((3125 * b) \div 4096)
      L == (3125 * b) % 4096
      e == x.exp + 5
      mag == IF e >= 0 THEN (H * 4096 + L) * 2 ^ e
             ELSE IF -e <= 12
             THEN LET d == 2 ^ (-e)
                  IN  H * (4096 \div d) + (L \div d) + (IF 2 * (L % d) >= d THEN 1 ELSE 0)
             ELSE IF -e > 42 THEN 0
             ELSE LET dj == 2 ^ (-e - 12)
                  IN  (H \div dj) + (IF 2 * (H % dj) >= dj THEN 1 ELSE 0)
  IN  IF x.neg THEN -mag ELSE mag

\* latitude in [-90, 90] and longitude in [-180, 180]
AtMostDegrees(x, n) ==
  LET bound == ExactF32(FALSE, n, 0)
  IN  x.m = 0 \/ x.exp < bound.exp \/ (x.exp = bound.exp /\ x.m <= bound.m)
InRange(l) == AtMostDegrees(l.latitude, 90) /\ AtMostDegrees(l.longitude, 180)

EncodedInRange ==
  /\ gps.called
  /\ gps.fn = "encode_coordinates"
  /\ \A k \in Indexes(gps.args) : InRange(gps.args[k])

\* C24: for Locations with a latitude in [-90, 90] and a longitude in
\* [-180, 180], encode_coordinates succeeds, and the reference decoder reads
\* from its output the coordinates times 100000, rounded, point by point in
\* the order of the input.
C24_DecodesToScaledCoordinates ==
  EncodedInRange =>
    /\ gps.value.ok
    /\ Decode(gps.value.value) =
         [k \in 1..Len(gps.args) |->
            <<TimesFactorRounded(gps.args[k].latitude),
              TimesFactorRounded(gps.args[k].longitude)>>]

\* the f32 of a whole number of degrees
WholeDegrees(n) == ExactF32(n < 0, IF n < 0 THEN -n ELSE n, 0)

\* the f32 2147483648.0 (2^31), which `as f32` makes of the largest i32
TwoPow31 == F32(FALSE, 8388608, 8)

\* what from_fit_coordinates made of one of its two arguments
ConvertsTo(native, deg) ==
  /\ native = 0 => deg = WholeDegrees(0)
  /\ AsF32(native) = TwoPow31 => deg = WholeDegrees(180)
  /\ native = MinI32 => deg = WholeDegrees(-180)
  /\ native = 1073741824 => deg = WholeDegrees(90)

MaxClauses == 2
\* most renderings of one state of the builder
MaxRenders == 2

\* the strings and numbers the builder is called with; a string the builder
\* makes is held as the sequence of the pieces it was put together from
BaseQueries == {"select uuid from files"}
WhereFragments == {"uuid = ?", "time_created > ?"}
OrderFragments == {"time_created desc", "id"}
LimitValues == {0, 25}

\* the decimal digits of a usize, as `{}` writes them
RECURSIVE Decimal(_)
Decimal(n) ==
  LET digit == <<"0", "1", "2", "3", "4", "5", "6", "7", "8", "9">>[(n % 10) + 1]
  IN  IF n < 10 THEN <<digit>> ELSE Append(Decimal(n \div 10), digit)

\* QueryStringBuilder::new
QueryStringBuilder_new(base_query) ==
  [built |-> TRUE, base_query |-> base_query, where_clauses |-> <<>>, order_by |-> <<>>,
   limit |-> NULL, rendered |-> NULL, renders |-> 0]

\* iter().fold(base, |b, c| format!("{}<sep>{}", b, c)) over clauses[k..]
RECURSIVE fold(_, _, _, _)
fold(clauses, k, b, sep) ==
  IF k > Len(clauses) THEN b
  ELSE fold(clauses, k + 1, b \o <<sep, clauses[k]>>, sep)

\* a rendering that folds over all fragments, the first one again
fmt_first_fragment_twice(q) ==
  LET where_clause == IF q.where_clauses = <<>> THEN <<>>
                      ELSE fold(q.where_clauses, 1, <<" where ", q.where_clauses[1]>>, " and ")
      order_by == IF q.order_by = <<>> THEN <<>>
                  ELSE fold(q.order_by, 1, <<" order by ", q.order_by[1]>>, ", ")
      limit == IF IsNull(q.limit) THEN <<>> ELSE <<" limit ">> \o Decimal(q.limit[1])
  IN  <<q.base_query>> \o where_clause \o order_by \o limit

\* Display::fmt, by which to_string renders the builder
fmt(q) ==
  LET where_clause == IF q.where_clauses = <<>> THEN <<>>
                      ELSE fold(q.where_clauses, 2, <<" where ", q.where_clauses[1]>>, " and ")
      order_by == IF q.order_by = <<>> THEN <<>>
                  ELSE fold(q.order_by, 2, <<" order by ", q.order_by[1]>>, ", ")
      limit == IF IsNull(q.limit) THEN <<>> ELSE <<" limit ">> \o Decimal(q.limit[1])
  IN  <<q.base_query>> \o where_clause \o order_by \o limit

InitQuery == Init

QueryNew ==
  /\ pc = "idle" /\ cmd = NoCmd
  /\ ~query.built
  /\ \E base_query \in BaseQueries : query' = QueryStringBuilder_new(base_query)
  /\ UNCHANGED <<db, tx, caller_tx, pc, imp, result, ret, enr, cmd, gen, gps>>

\* and_where pushes the clause; what was rendered before is of the past
QueryAndWhere ==
  /\ query.built
  /\ Len(query.where_clauses) < MaxClauses
  /\ \E clause \in WhereFragments :
       query' = [query EXCEPT !.where_clauses = Append(@, clause),
                              !.rendered = NULL, !.renders = 0]
  /\ UNCHANGED <<db, tx, caller_tx, pc, imp, result, ret, enr, cmd, gen, gps>>

QueryOrderBy ==
  /\ query.built
  /\ Len(query.order_by) < MaxClauses
  /\ \E clause \in OrderFragments :
       query' = [query EXCEPT !.order_by = Append(@, clause),
                              !.rendered = NULL, !.renders = 0]
  /\ UNCHANGED <<db, tx, caller_tx, pc, imp, result, ret, enr, cmd, gen, gps>>

QueryLimit ==
  /\ query.built
  /\ \E value \in LimitValues :
       query' = [query EXCEPT !.limit = Some(value), !.rendered = NULL, !.renders = 0]
  /\ UNCHANGED <<db, tx, caller_tx, pc, imp, result, ret, enr, cmd, gen, gps>>

\* to_string: the builder is borrowed, not changed
QueryRender ==
  /\ query.built
  /\ query.renders < MaxRenders
  /\ query' = [query EXCEPT !.rendered = Some(fmt(query)), !.renders = @ + 1]
  /\ UNCHANGED <<db, tx, caller_tx, pc, imp, result, ret, enr, cmd, gen, gps>>

NextQuery ==
  \/ QueryNew
  \/ QueryAndWhere
  \/ QueryOrderBy
  \/ QueryLimit
  \/ QueryRender

SpecQuery == InitQuery /\ [][NextQuery]_vars

(***************************************************************************)
(* Properties of QueryStringBuilder                                        *)
(***************************************************************************)
\* the fragments with the separator between each two of them
RECURSIVE Joined(_, _)
Joined(fragments, sep) ==
  IF Len(fragments) <= 1 THEN fragments
  ELSE <<fragments[1], sep>> \o Joined(Tail(fragments), sep)

\* the base query, the predicates, the orderings and the limit, in this order
RenderedAsSpecified(q) ==
  <<q.base_query>>
    \o (IF q.where_clauses = <<>> THEN <<>> ELSE <<" where ">> \o Joined(q.where_clauses, " and "))
    \o (IF q.order_by = <<>> THEN <<>> ELSE <<" order by ">> \o Joined(q.order_by, ", "))
    \o (IF IsNull(q.limit) THEN <<>> ELSE <<" limit ">> \o Decimal(q.limit[1]))

BuilderFields(q) == <<q.base_query, q.where_clauses, q.order_by, q.limit>>

\* C26: after any and_where, order_by and limit calls, the builder renders
\* to the base query, then " where " and the predicates in call order joined
\* by " and ", then " order by " and the orderings in call order joined by
\* ", ", then " limit N", each part only if there is one; without fragments
\* it renders to the base query alone; rendering changes no field of the
\* builder, and a second rendering gives the same string.
C26_RendersInFixedOrder ==
  /\ []((query.built /\ ~IsNull(query.rendered)) =>
          /\ query.rendered[1] = RenderedAsSpecified(query)
          /\ (query.where_clauses = <<>> /\ query.order_by = <<>> /\ IsNull(query.limit))
               => query.rendered[1] = <<query.base_query>>)
  /\ [][(query.built /\ query'.renders > query.renders) =>
          /\ BuilderFields(query') = BuilderFields(query)
          /\ ~IsNull(query.rendered) => query'.rendered = query.rendered]_vars

\* a builder with two predicates, two orderings and a limit, rendered twice
C26_Witness ==
  /\ query.built
  /\ Len(query.where_clauses) = 2
  /\ Len(query.order_by) = 2
  /\ query.limit = Some(25)
  /\ query.renders = 2
  /\ query.rendered = Some(<<"select uuid from files", " where ", "uuid = ?", " and ",
                            "time_created > ?", " order by ", "id", ", ",
                            "time_created desc", " limit ", "2", "5">>)

(***************************************************************************)
(* More properties of the import                                           *)
(***************************************************************************)
\* the database as the running import_fit_data call sees it
Staged == IF tx.open THEN TxDb(tx) ELSE db

\* the id of the files row that the call inserted for the last file_id
\* message before the k-th message of its stream, if there is such a message
CurrentFileId(d, k) ==
  LET n == Cardinality({ f \in FileIdIndexes(imp.messages) : f < k })
  IN  IF n = 0 THEN NULL ELSE Some(d.files[Len(imp.before.files) + n].id)

\* C27: every record and lap row that import_fit_data inserts carries the id
\* of the files row inserted for the most recent file_id message before the
\* row's source message in the stream, also when the stream holds more than
\* one file_id message.
C27_RowsCarryCurrentFile ==
  (pc \in {"loop", "returned"} /\ (tx.open \/ result.ok)) =>
    \A r \in NewRows(Staged.records, imp.before.records)
               \cup NewRows(Staged.laps, imp.before.laps) :
      r.file_id = CurrentFileId(Staged, r.mesg)

\* the stream [file_id, file_id, record] was imported and committed: the
\* record carries the id of the second files row
C27_Witness ==
  /\ pc = "returned"
  /\ result.ok
  /\ Len(imp.messages) = 3
  /\ FileIdIndexes(imp.messages) = {1, 2}
  /\ NewRows(db.records, imp.before.records) # {}
  /\ \A r \in NewRows(db.records, imp.before.records) :
       r.file_id = Some(db.files[Len(db.files)].id)

\* C28: when import_file returns an error for a file, the database holds no
\* row of that file: it is as it was before the call, so that the file can
\* be imported again.
C28_FailedImportFilePersistsNothing ==
  [][(pc = "returned" /\ pc' = "idle" /\ ~ret'.ok) => db' = imp.before]_vars

(***************************************************************************)
(* More properties of the enrichment                                       *)
(***************************************************************************)
\* C29: every lap row that update_elevation_data selects has a start and an
\* end latitude and longitude, so that the start and end Locations of every
\* selected lap can be built, and a call that the service does not fail
\* succeeds, whatever laps the database holds.
C29_SelectedLapsHaveAllCoordinates ==
  Called =>
    /\ \A k \in SelectedLaps :
         /\ ~IsNull(db.laps[k].start_position_lat)
         /\ ~IsNull(db.laps[k].start_position_long)
         /\ ~IsNull(db.laps[k].end_position_lat)
         /\ ~IsNull(db.laps[k].end_position_long)
    /\ enr.fail = NoFailure => enr.ok

\* no record with coordinates and no lap with start and end coordinates
\* lacks an elevation
AllFilled(d) ==
  /\ \A k \in Indexes(d.records) :
       (~IsNull(d.records[k].position_lat) /\ ~IsNull(d.records[k].position_long))
         => ~IsNull(d.records[k].elevation)
  /\ \A k \in Indexes(d.laps) :
       ( /\ ~IsNull(d.laps[k].start_position_lat) /\ ~IsNull(d.laps[k].start_position_long)
         /\ ~IsNull(d.laps[k].end_position_lat) /\ ~IsNull(d.laps[k].end_position_long) )
         => (~IsNull(d.laps[k].start_elevation) /\ ~IsNull(d.laps[k].end_elevation))

\* C30: when update_elevation_data(None, overwrite = false) has succeeded
\* with a service that gave an elevation for every place, then after the
\* caller's commit no record with coordinates has a null elevation and no
\* lap with start and end coordinates has a null start or end elevation.
C30_BackfillFillsEverything ==
  [][( /\ Called /\ enr.ok
       /\ IsNull(enr.file_id) /\ ~enr.overwrite
       /\ \A p \in Places : ~IsNull(enr.answers[p]) )
       => AllFilled(db')]_vars

====
